---- MODULE Spec2Model ----
(***************************************************************************)
(* Model of business/checkers/destinationrules/multi_match_checker.go:     *)
(* MultiMatchChecker.Check and its helpers.                                *)
(*                                                                         *)
(* Go strings that the code takes apart (host names, namespaces, cluster   *)
(* names) are sequences of one-character strings, so that strings.Split    *)
(* and strings.Join are computed.  Strings the code only compares (object  *)
(* names, subset names, the TLS mode) are TLA+ strings.                    *)
(* A Go map is a function; ranging over a map visits its keys in an        *)
(* unspecified order, so an operator that ranges over a map yields the SET *)
(* of results of all visiting orders.                                      *)
(***************************************************************************)
EXTENDS Integers, Sequences, FiniteSets, TLC

VARIABLES DestinationRules, i, seenHostSubsets, validations

vars == <<DestinationRules, i, seenHostSubsets, validations>>

(***************************************************************************)
(* Bounds                                                                  *)
(***************************************************************************)
MaxRules == 3

(***************************************************************************)
(* Dynamically typed values of the attribute map (interface{}).            *)
(***************************************************************************)
StringV(s) == [kind |-> "string", str |-> s]

MapV(m) == [kind |-> "map", map |-> m]

SliceV(l) == [kind |-> "slice", elems |-> l]

NumberV == [kind |-> "number"]

EmptyMap == <<>>

IsString(v) == v.kind = "string"

IsMap(v) == v.kind = "map"

IsSlice(v) == v.kind = "slice"

(***************************************************************************)
(* strings.Split(s, ".") and strings.Join(parts, ".")                      *)
(***************************************************************************)
Dot == "."

EmptyString == <<>>

Star == <<"*">>

FirstDot(s) == IF \E k \in 1..Len(s) : s[k] = Dot
               THEN CHOOSE k \in 1..Len(s) : s[k] = Dot /\ \A j \in 1..(k - 1) : s[j] # Dot
               ELSE 0

RECURSIVE Split(_)
Split(s) == IF FirstDot(s) = 0
            THEN <<s>>
            ELSE <<SubSeq(s, 1, FirstDot(s) - 1)>> \o Split(SubSeq(s, FirstDot(s) + 1, Len(s)))

RECURSIVE Join(_)
Join(parts) == IF Len(parts) = 0 THEN EmptyString
               ELSE IF Len(parts) = 1 THEN parts[1]
               ELSE parts[1] \o <<Dot>> \o Join(Tail(parts))

\* Variant: the cluster is the third segment alone.
FormatHostnameThirdSegment(hostName, namespace, clusterName) ==
    LET domainParts == Split(hostName)
        ns0 == IF Len(domainParts) > 1 THEN domainParts[2] ELSE EmptyString
        cl0 == IF Len(domainParts) > 2 THEN domainParts[3] ELSE EmptyString
    IN [Service   |-> domainParts[1],
        Namespace |-> IF ns0 = EmptyString THEN namespace ELSE ns0,
        Cluster   |-> IF cl0 = EmptyString THEN clusterName ELSE cl0]

\* Variant: the whole host string is taken as the service.
FormatHostnameUnsplit(hostName, namespace, clusterName) ==
    [Service |-> hostName, Namespace |-> namespace, Cluster |-> clusterName]

(***************************************************************************)
(* FormatHostnameForPrefixSearch                                           *)
(***************************************************************************)
FormatHostnameForPrefixSearch(hostName, namespace, clusterName) ==
    LET domainParts == Split(hostName)
        ns0 == IF Len(domainParts) > 1 THEN domainParts[2] ELSE EmptyString
        cl0 == IF Len(domainParts) > 2 THEN Join(SubSeq(domainParts, 3, Len(domainParts)))
               ELSE EmptyString
    IN [Service   |-> domainParts[1],
        Namespace |-> IF ns0 = EmptyString THEN namespace ELSE ns0,
        Cluster   |-> IF cl0 = EmptyString THEN clusterName ELSE cl0]

\* mode of trafficPolicy.tls, or NumberV when the chain of lookups breaks
tlsModeOf(dr) ==
    IF "trafficPolicy" \in DOMAIN dr.Spec /\ IsMap(dr.Spec["trafficPolicy"])
       /\ "tls" \in DOMAIN dr.Spec["trafficPolicy"].map
       /\ IsMap(dr.Spec["trafficPolicy"].map["tls"])
       /\ "mode" \in DOMAIN dr.Spec["trafficPolicy"].map["tls"].map
    THEN dr.Spec["trafficPolicy"].map["tls"].map["mode"]
    ELSE NumberV

\* Variant: the service of the host is not looked at.
enablesmTLSAnyHost(dr, fdqn) ==
    IsString(tlsModeOf(dr)) /\ tlsModeOf(dr).str = "ISTIO_MUTUAL"

\* Variant: the mode is compared with another literal.
enablesmTLSOtherMode(dr, fdqn) ==
    fdqn.Service = Star /\ IsString(tlsModeOf(dr)) /\ tlsModeOf(dr).str = "MUTUAL"

(***************************************************************************)
(* enablesNonLocalmTLS                                                     *)
(***************************************************************************)
enablesNonLocalmTLS(dr, fdqn) ==
    IF fdqn.Service # Star THEN FALSE
    ELSE IF "trafficPolicy" \notin DOMAIN dr.Spec THEN FALSE
    ELSE IF ~IsMap(dr.Spec["trafficPolicy"]) THEN FALSE
    ELSE LET trafficCasted == dr.Spec["trafficPolicy"].map
         IN IF "tls" \notin DOMAIN trafficCasted THEN FALSE
            ELSE IF ~IsMap(trafficCasted["tls"]) THEN FALSE
            ELSE LET tlsCasted == trafficCasted["tls"].map
                 IN IF "mode" \notin DOMAIN tlsCasted THEN FALSE
                    ELSE IF ~IsString(tlsCasted["mode"]) THEN FALSE
                    ELSE tlsCasted["mode"].str = "ISTIO_MUTUAL"

(***************************************************************************)
(* extractSubsets                                                          *)
(***************************************************************************)
Sentinel == "~"

subset(name, ruleName) == [Name |-> name, RuleName |-> ruleName]

RECURSIVE extractNamed(_, _)
extractNamed(subsetSlice, destinationRulesName) ==
    IF Len(subsetSlice) = 0 THEN <<>>
    ELSE LET se == Head(subsetSlice)
             rest == extractNamed(Tail(subsetSlice), destinationRulesName)
         IN IF IsMap(se) /\ "name" \in DOMAIN se.map /\ IsString(se.map["name"])
            THEN <<subset(se.map["name"].str, destinationRulesName)>> \o rest
            ELSE rest

extractSubsets(dr, destinationRulesName) ==
    IF "subsets" \in DOMAIN dr.Spec /\ IsSlice(dr.Spec["subsets"])
    THEN extractNamed(dr.Spec["subsets"].elems, destinationRulesName)
    ELSE <<subset(Sentinel, destinationRulesName)>>

(***************************************************************************)
(* addError, with models.Build and IstioValidations.MergeValidations       *)
(***************************************************************************)
DestinationRulesCheckerType == "destinationrule"

IstioValidationKey(name) == [Name |-> name, ObjectType |-> DestinationRulesCheckerType]

Build(code, path) == [Code |-> code, Path |-> path]

MergeValidations(iv, other) ==
    [key \in DOMAIN iv \cup DOMAIN other |->
        IF key \notin DOMAIN iv THEN other[key]
        ELSE IF key \notin DOMAIN other THEN iv[key]
        ELSE [iv[key] EXCEPT !.Checks = iv[key].Checks \o other[key].Checks,
                             !.Valid = iv[key].Valid /\ other[key].Valid]]

\* Variant: the finding is merged even when the key exists already.
addErrorOneUnguarded(vals, destinationRuleName) ==
    MergeValidations(vals,
        IstioValidationKey(destinationRuleName) :>
            [Name       |-> destinationRuleName,
             ObjectType |-> DestinationRulesCheckerType,
             Valid      |-> TRUE,
             Checks     |-> <<Build("destinationrules.multimatch", "spec/host")>>])

addErrorOne(vals, destinationRuleName) ==
    LET key == IstioValidationKey(destinationRuleName)
        checks == Build("destinationrules.multimatch", "spec/host")
        rrValidation == [Name       |-> destinationRuleName,
                         ObjectType |-> DestinationRulesCheckerType,
                         Valid      |-> TRUE,
                         Checks     |-> <<checks>>]
    IN IF key \notin DOMAIN vals
       THEN MergeValidations(vals, key :> rrValidation)
       ELSE vals

\* Variant: only the first name of the pair (the current rule) is recorded.
addErrorCurrentOnly(vals, destinationRuleNames) ==
    IF Len(destinationRuleNames) = 0 THEN vals
    ELSE addErrorOne(vals, Head(destinationRuleNames))

RECURSIVE addError(_, _)
addError(vals, destinationRuleNames) ==
    IF Len(destinationRuleNames) = 0 THEN vals
    ELSE addError(addErrorOne(vals, Head(destinationRuleNames)), Tail(destinationRuleNames))

(***************************************************************************)
(* checkCollisions: the set of findings maps it can leave, one per order   *)
(* in which `range existing` visits the map.                               *)
(***************************************************************************)
\* Variant: the loop over existing stops at the first owner it visits.
rangeExistingFirstHit(vals, destinationRulesName, existing, keys) ==
    IF keys = {} THEN {vals}
    ELSE { addError(vals, <<destinationRulesName, existing[k]>>) : k \in keys }

RECURSIVE rangeExisting(_, _, _, _)
rangeExisting(vals, destinationRulesName, existing, keys) ==
    IF keys = {} THEN {vals}
    ELSE UNION { rangeExisting(addError(vals, <<destinationRulesName, existing[k]>>),
                               destinationRulesName, existing, keys \ {k}) : k \in keys }

\* Variant: the loop over foundSubsets stops after its first element.
rangeFoundFirstOnly(vals, destinationRulesName, foundSubsets, existing) ==
    IF Len(foundSubsets) = 0 THEN vals
    ELSE IF Head(foundSubsets).Name \in DOMAIN existing
    THEN addError(vals, <<destinationRulesName, existing[Head(foundSubsets).Name]>>)
    ELSE vals

RECURSIVE rangeFound(_, _, _, _)
rangeFound(vals, destinationRulesName, foundSubsets, existing) ==
    IF Len(foundSubsets) = 0 THEN vals
    ELSE LET s == Head(foundSubsets)
             next == IF s.Name \in DOMAIN existing
                     THEN addError(vals, <<destinationRulesName, existing[s.Name]>>)
                     ELSE vals
         IN rangeFound(next, destinationRulesName, Tail(foundSubsets), existing)

\* Variant: the "~" entry of existing is not looked up.
checkCollisionsNoExistingSentinel(vals, destinationRulesName, foundSubsets, existing) ==
    LET afterCurrent == IF Len(foundSubsets) = 1 /\ foundSubsets[1].Name = Sentinel
                        THEN rangeExisting(vals, destinationRulesName, existing, DOMAIN existing)
                        ELSE {vals}
    IN { rangeFound(v, destinationRulesName,
                    SelectSeq(foundSubsets, LAMBDA s : s.Name # Sentinel), existing)
         : v \in afterCurrent }

\* Variant: a current rule that is the sentinel gets no loop over existing.
checkCollisionsNoCurrentSentinel(vals, destinationRulesName, foundSubsets, existing) ==
    LET afterExisting == IF Sentinel \in DOMAIN existing
                         THEN addError(vals, <<destinationRulesName, existing[Sentinel]>>)
                         ELSE vals
    IN { rangeFound(afterExisting, destinationRulesName, foundSubsets, existing) }

checkCollisions(vals, destinationRulesName, foundSubsets, existing) ==
    LET afterCurrent == IF Len(foundSubsets) = 1 /\ foundSubsets[1].Name = Sentinel
                        THEN rangeExisting(vals, destinationRulesName, existing, DOMAIN existing)
                        ELSE {vals}
        afterExisting == { IF Sentinel \in DOMAIN existing
                           THEN addError(v, <<destinationRulesName, existing[Sentinel]>>)
                           ELSE v : v \in afterCurrent }
    IN { rangeFound(v, destinationRulesName, foundSubsets, existing) : v \in afterExisting }

(***************************************************************************)
(* One iteration of the loop of Check over a rule dr, from the index seen  *)
(* and the findings vals: the set of (index, findings) it can leave.       *)
(***************************************************************************)
HasHost(dr) == "host" \in DOMAIN dr.Spec /\ IsString(dr.Spec["host"])

fqdnOf(dr) == FormatHostnameForPrefixSearch(dr.Spec["host"].str, dr.Namespace, dr.ClusterName)

RECURSIVE rangeSeen(_, _, _, _, _)
rangeSeen(valsSet, destinationRulesName, foundSubsets, seen, keys) ==
    IF keys = {} THEN valsSet
    ELSE UNION { rangeSeen(UNION { checkCollisions(v, destinationRulesName, foundSubsets, seen[h])
                                   : v \in valsSet },
                           destinationRulesName, foundSubsets, seen, keys \ {h}) : h \in keys }

\* Variant: an entry that has an owner keeps it.
mergeSubsetsKeepFirst(seen, service, foundSubsets, destinationRulesName) ==
    LET base == IF service \in DOMAIN seen THEN seen ELSE seen @@ (service :> EmptyMap)
        names == { foundSubsets[k].Name : k \in 1..Len(foundSubsets) }
    IN [base EXCEPT ![service] =
            [n \in DOMAIN base[service] \cup names |->
                IF n \in DOMAIN base[service] THEN base[service][n] ELSE destinationRulesName]]

mergeSubsets(seen, service, foundSubsets, destinationRulesName) ==
    LET base == IF service \in DOMAIN seen THEN seen ELSE seen @@ (service :> EmptyMap)
        names == { foundSubsets[k].Name : k \in 1..Len(foundSubsets) }
    IN [base EXCEPT ![service] =
            [n \in DOMAIN base[service] \cup names |->
                IF n \in names THEN destinationRulesName ELSE base[service][n]]]

\* Variant: a "*" rule is not checked against the other hosts of the index.
checkRuleNoWildcardScan(seen, vals, dr) ==
    LET destinationRulesName == dr.Name
        fqdn == fqdnOf(dr)
        foundSubsets == extractSubsets(dr, destinationRulesName)
        afterStar == IF Star \in DOMAIN seen
                     THEN checkCollisions(vals, destinationRulesName, foundSubsets, seen[Star])
                     ELSE {vals}
        afterHost == IF fqdn.Service \in DOMAIN seen
                     THEN UNION { checkCollisions(v, destinationRulesName, foundSubsets,
                                                  seen[fqdn.Service]) : v \in afterStar }
                     ELSE afterStar
    IN { [seen |-> mergeSubsets(seen, fqdn.Service, foundSubsets, destinationRulesName),
          vals |-> v] : v \in afterHost }

\* Variant: the subsets of the rule are merged before the index is checked.
checkRuleMergeFirst(seen, vals, dr) ==
    LET destinationRulesName == dr.Name
        fqdn == fqdnOf(dr)
        foundSubsets == extractSubsets(dr, destinationRulesName)
        merged == mergeSubsets(seen, fqdn.Service, foundSubsets, destinationRulesName)
        afterAll == IF fqdn.Service = Star
                    THEN rangeSeen({vals}, destinationRulesName, foundSubsets, merged, DOMAIN merged)
                    ELSE {vals}
        afterStar == IF Star \in DOMAIN merged
                     THEN UNION { checkCollisions(v, destinationRulesName, foundSubsets, merged[Star])
                                  : v \in afterAll }
                     ELSE afterAll
        afterHost == UNION { checkCollisions(v, destinationRulesName, foundSubsets,
                                             merged[fqdn.Service]) : v \in afterStar }
    IN { [seen |-> merged, vals |-> v] : v \in afterHost }

\* Variant: the lookup of the rule's own service (lines 60-63) is left out.
checkRuleNoServiceCheck(seen, vals, dr) ==
    LET destinationRulesName == dr.Name
        fqdn == fqdnOf(dr)
        foundSubsets == extractSubsets(dr, destinationRulesName)
        afterAll == IF fqdn.Service = Star
                    THEN rangeSeen({vals}, destinationRulesName, foundSubsets, seen, DOMAIN seen)
                    ELSE {vals}
        afterStar == IF Star \in DOMAIN seen
                     THEN UNION { checkCollisions(v, destinationRulesName, foundSubsets, seen[Star])
                                  : v \in afterAll }
                     ELSE afterAll
    IN { [seen |-> mergeSubsets(seen, fqdn.Service, foundSubsets, destinationRulesName),
          vals |-> v] : v \in afterStar }

\* Variant: every rule is checked against all hosts of the index.
checkRuleScanAlways(seen, vals, dr) ==
    LET destinationRulesName == dr.Name
        fqdn == fqdnOf(dr)
        foundSubsets == extractSubsets(dr, destinationRulesName)
    IN { [seen |-> mergeSubsets(seen, fqdn.Service, foundSubsets, destinationRulesName),
          vals |-> v]
         : v \in rangeSeen({vals}, destinationRulesName, foundSubsets, seen, DOMAIN seen) }

checkRule(seen, vals, dr) ==
    LET destinationRulesName == dr.Name
        fqdn == fqdnOf(dr)
        foundSubsets == extractSubsets(dr, destinationRulesName)
        afterAll == IF fqdn.Service = Star
                    THEN rangeSeen({vals}, destinationRulesName, foundSubsets, seen, DOMAIN seen)
                    ELSE {vals}
        afterStar == IF Star \in DOMAIN seen
                     THEN UNION { checkCollisions(v, destinationRulesName, foundSubsets, seen[Star])
                                  : v \in afterAll }
                     ELSE afterAll
        afterHost == IF fqdn.Service \in DOMAIN seen
                     THEN UNION { checkCollisions(v, destinationRulesName, foundSubsets,
                                                  seen[fqdn.Service]) : v \in afterStar }
                     ELSE afterStar
    IN { [seen |-> mergeSubsets(seen, fqdn.Service, foundSubsets, destinationRulesName),
          vals |-> v] : v \in afterHost }

\* Variant: a failed host lookup or assertion yields "" and the rule goes on.
loopBodyEmptyHost(seen, vals, dr) ==
    IF ~HasHost(dr)
    THEN checkRule(seen, vals, [dr EXCEPT !.Spec = ("host" :> StringV(EmptyString)) @@ dr.Spec])
    ELSE IF enablesNonLocalmTLS(dr, fqdnOf(dr)) THEN {[seen |-> seen, vals |-> vals]}
    ELSE checkRule(seen, vals, dr)

loopBody(seen, vals, dr) ==
    IF ~HasHost(dr) THEN {[seen |-> seen, vals |-> vals]}
    ELSE IF enablesNonLocalmTLS(dr, fqdnOf(dr)) THEN {[seen |-> seen, vals |-> vals]}
    ELSE checkRule(seen, vals, dr)

(***************************************************************************)
(* Check run to completion over a sequence of rules (all visiting orders). *)
(***************************************************************************)
RECURSIVE checkFrom(_, _)
checkFrom(states, rules) ==
    IF Len(rules) = 0 THEN states
    ELSE checkFrom(UNION { loopBody(st.seen, st.vals, Head(rules)) : st \in states }, Tail(rules))

Check(rules) == checkFrom({[seen |-> EmptyMap, vals |-> EmptyMap]}, rules)

(***************************************************************************)
(* Destination rules fed to the checker.                                   *)
(***************************************************************************)
IstioObject(name, namespace, clusterName, spec) ==
    [Name |-> name, Namespace |-> namespace, ClusterName |-> clusterName, Spec |-> spec]

hostAttr(h) == "host" :> StringV(h)

subsetsAttr(entries) == "subsets" :> SliceV(entries)

named(n) == MapV("name" :> StringV(n))

tlsModeAttr(mode) == "trafficPolicy" :> MapV("tls" :> MapV("mode" :> mode))

NsN == <<"n">>

NsM == <<"m">>

ClusterC == <<"c">>

HostR == <<"r">>

HostRN == <<"r", ".", "n">>

HostRM == <<"r", ".", "m">>

HostRNC == <<"r", ".", "n", ".", "s", ".", "c">>

HostP == <<"p">>

HostStarN == <<"*", ".", "n">>

Shape(namespace, clusterName, spec) == IstioObject("", namespace, clusterName, spec)

\* Rules that collide or not on hosts and subsets.
CollisionShapes ==
    { Shape(NsN, EmptyString, subsetsAttr(<<named("a")>>)),
      Shape(NsN, EmptyString, hostAttr(Star) @@ tlsModeAttr(StringV("ISTIO_MUTUAL"))),
      Shape(NsN, EmptyString, hostAttr(HostRN)),
      Shape(NsM, ClusterC, hostAttr(HostRM)),
      Shape(NsN, EmptyString, hostAttr(HostR) @@ subsetsAttr(<<named("a"), named("b")>>)),
      Shape(NsM, EmptyString, hostAttr(HostRNC) @@ subsetsAttr(<<named("b"), named("c")>>)),
      Shape(NsN, ClusterC, hostAttr(HostR) @@ subsetsAttr(<<named("c")>>)),
      Shape(NsN, EmptyString, hostAttr(Star) @@ subsetsAttr(<<named("a")>>)),
      Shape(NsN, EmptyString, hostAttr(HostStarN)),
      Shape(NsN, EmptyString, hostAttr(HostP) @@ subsetsAttr(<<named("a")>>)),
      Shape(NsM, EmptyString, hostAttr(HostP)) }

\* Rules with missing or mistyped attributes, and rules that set a TLS mode.
TolerantShapes ==
    { Shape(NsN, EmptyString, EmptyMap),
      Shape(NsN, EmptyString, "host" :> NumberV @@ subsetsAttr(<<named("a")>>)),
      Shape(NsN, EmptyString, hostAttr(Star) @@ tlsModeAttr(StringV("ISTIO_MUTUAL"))),
      Shape(NsN, EmptyString, hostAttr(HostStarN) @@ tlsModeAttr(StringV("ISTIO_MUTUAL"))
                              @@ subsetsAttr(<<named("a")>>)),
      Shape(NsN, EmptyString, hostAttr(Star) @@ tlsModeAttr(StringV("SIMPLE"))),
      Shape(NsN, EmptyString, hostAttr(Star) @@ tlsModeAttr(NumberV)
                              @@ subsetsAttr(<<named("a")>>)),
      Shape(NsN, EmptyString, hostAttr(Star) @@ "trafficPolicy" :> MapV("tls" :> NumberV)),
      Shape(NsN, EmptyString, hostAttr(HostRN) @@ tlsModeAttr(StringV("ISTIO_MUTUAL"))),
      Shape(NsN, EmptyString, hostAttr(HostRN)),
      Shape(NsN, EmptyString, hostAttr(HostR) @@ subsetsAttr(<<>>)),
      Shape(NsN, EmptyString, hostAttr(HostR)
                              @@ subsetsAttr(<<MapV(EmptyMap), NumberV, MapV("name" :> NumberV)>>)),
      Shape(NsN, EmptyString, hostAttr(HostR) @@ subsetsAttr(<<named(Sentinel)>>)),
      Shape(NsN, EmptyString, hostAttr(HostR) @@ subsetsAttr(<<NumberV, named("a")>>)),
      Shape(NsN, EmptyString, hostAttr(HostR) @@ "subsets" :> NumberV) }

NsD == <<"d">>

NsB == <<"b">>

ClusterE == <<"e">>

\* Rules whose hosts have one to five segments, some of them empty.
HostShapes ==
    { Shape(NsD, ClusterE, EmptyMap),
      Shape(NsD, ClusterE, hostAttr(HostStarN) @@ tlsModeAttr(StringV("ISTIO_MUTUAL"))),
      Shape(NsD, EmptyString, hostAttr(<<"r", ".", "b", ".", "s", ".", "c", ".", "l">>)),
      Shape(NsB, ClusterE, hostAttr(HostR)),
      Shape(NsD, ClusterE, hostAttr(HostRN)),
      Shape(NsD, ClusterE, hostAttr(HostRNC)),
      Shape(NsD, ClusterE, hostAttr(EmptyString)),
      Shape(NsD, ClusterE, hostAttr(<<"r", ".">>)),
      Shape(NsD, ClusterE, hostAttr(<<"r", ".", ".", "c">>)),
      Shape(NsD, ClusterE, hostAttr(<<"r", ".", "n", ".">>)),
      Shape(NsD, ClusterE, hostAttr(<<".", "n">>)),
      Shape(EmptyString, EmptyString, hostAttr(<<"r", ".", "n", ".", ".", "c">>)) }

\* Wildcard, sentinel, explicit, empty and repeated subsets on few services.
MixedShapes ==
    { Shape(NsN, EmptyString, EmptyMap),
      Shape(NsN, EmptyString, hostAttr(Star) @@ tlsModeAttr(StringV("ISTIO_MUTUAL"))),
      Shape(NsN, EmptyString, hostAttr(HostRN)),
      Shape(NsN, EmptyString, hostAttr(HostR) @@ subsetsAttr(<<named("a"), named("b")>>)),
      Shape(NsM, EmptyString, hostAttr(HostRM) @@ subsetsAttr(<<named("b")>>)),
      Shape(NsN, EmptyString, hostAttr(HostR) @@ subsetsAttr(<<>>)),
      Shape(NsN, EmptyString, hostAttr(HostR) @@ subsetsAttr(<<named(Sentinel), named("b")>>)),
      Shape(NsN, EmptyString, hostAttr(HostR) @@ subsetsAttr(<<named("a"), named("a")>>)),
      Shape(NsN, EmptyString, hostAttr(Star) @@ subsetsAttr(<<named("a")>>)),
      Shape(NsN, EmptyString, hostAttr(HostStarN)),
      Shape(NsN, EmptyString, hostAttr(HostP) @@ subsetsAttr(<<named("a")>>)),
      Shape(NsM, EmptyString, hostAttr(HostP)) }

RuleNames == <<"dr1", "dr2", "dr3", "dr4", "dr5">>

\* Names are unique, except that the last rule may carry the name of the first.
RuleInputs(shapes) ==
    { [p \in 1..n |-> [f[p] EXCEPT !.Name = IF dup /\ p = n THEN RuleNames[1] ELSE RuleNames[p]]]
      : <<n, f, dup>> \in  UNION { {n0} \X [1..n0 -> shapes] \X BOOLEAN : n0 \in 0..MaxRules } }

(***************************************************************************)
(* State machine: Check walks m.DestinationRules; i is the loop position.  *)
(***************************************************************************)
InitWith(shapes) ==
    /\ DestinationRules \in RuleInputs(shapes)
    /\ i = 1
    /\ seenHostSubsets = EmptyMap
    /\ validations = EmptyMap

Init == InitWith(CollisionShapes)

InitTolerant == InitWith(TolerantShapes)

InitHosts == InitWith(HostShapes)

InitMixed == InitWith(MixedShapes)

currentRule == DestinationRules[i]

Iterate ==
    /\ \E st \in loopBody(seenHostSubsets, validations, currentRule) :
          /\ seenHostSubsets' = st.seen
          /\ validations' = st.vals
    /\ i' = i + 1
    /\ UNCHANGED DestinationRules

\* host absent or not a string: lines 35 and 37 fall through to the next rule
SkipNoHost ==
    /\ i <= Len(DestinationRules)
    /\ ~HasHost(currentRule)
    /\ Iterate

\* line 41-43: continue
SkipMTLS ==
    /\ i <= Len(DestinationRules)
    /\ HasHost(currentRule)
    /\ enablesNonLocalmTLS(currentRule, fqdnOf(currentRule))
    /\ Iterate

\* lines 45-70
CheckRule ==
    /\ i <= Len(DestinationRules)
    /\ HasHost(currentRule)
    /\ ~enablesNonLocalmTLS(currentRule, fqdnOf(currentRule))
    /\ Iterate

Next == SkipNoHost \/ SkipMTLS \/ CheckRule

Spec == Init /\ [][Next]_vars

SpecTolerant == InitTolerant /\ [][Next]_vars

SpecHosts == InitHosts /\ [][Next]_vars

SpecMixed == InitMixed /\ [][Next]_vars

Returned == i > Len(DestinationRules)

TypeOK ==
    /\ i \in 1..(Len(DestinationRules) + 1)
    /\ \A k \in DOMAIN validations : k.Name \in {DestinationRules[p].Name : p \in 1..Len(DestinationRules)}

(***************************************************************************)
(* Vocabulary of the properties, read off the rules themselves.            *)
(***************************************************************************)
Processed == SubSeq(DestinationRules, 1, i - 1)

Positions == 1..(i - 1)

Flagged == { key.Name : key \in DOMAIN validations }

Now == [seen |-> seenHostSubsets, vals |-> validations]

UsableHost(d) == "host" \in DOMAIN d.Spec /\ d.Spec["host"].kind = "string"

\* first dot-segment of the host string
ServiceOf(d) ==
    LET h == d.Spec["host"].str
        dots == { k \in 1..Len(h) : h[k] = "." }
    IN IF dots = {} THEN h
       ELSE SubSeq(h, 1, (CHOOSE k \in dots : \A j \in dots : k <= j) - 1)

ModeIsMutual(d) ==
    /\ "trafficPolicy" \in DOMAIN d.Spec
    /\ d.Spec["trafficPolicy"].kind = "map"
    /\ "tls" \in DOMAIN d.Spec["trafficPolicy"].map
    /\ d.Spec["trafficPolicy"].map["tls"].kind = "map"
    /\ "mode" \in DOMAIN d.Spec["trafficPolicy"].map["tls"].map
    /\ d.Spec["trafficPolicy"].map["tls"].map["mode"] = [kind |-> "string", str |-> "ISTIO_MUTUAL"]

Exempt(d) == UsableHost(d) /\ ServiceOf(d) = <<"*">> /\ ModeIsMutual(d)

Participates(d) == UsableHost(d) /\ ~Exempt(d)

NoSubsetsAttr(d) == "subsets" \notin DOMAIN d.Spec

SubsetsIsList(d) == "subsets" \in DOMAIN d.Spec /\ d.Spec["subsets"].kind = "slice"

HasStringName(e) == e.kind = "map" /\ "name" \in DOMAIN e.map /\ e.map["name"].kind = "string"

DeclaredNames(d) ==
    IF SubsetsIsList(d)
    THEN { d.Spec["subsets"].elems[k].map["name"].str :
             k \in { j \in 1..Len(d.Spec["subsets"].elems) : HasStringName(d.Spec["subsets"].elems[j]) } }
    ELSE {}

AllEntriesNamed(d) ==
    /\ SubsetsIsList(d)
    /\ \A k \in 1..Len(d.Spec["subsets"].elems) : HasStringName(d.Spec["subsets"].elems[k])

UniqueName(p) == \A q \in 1..Len(DestinationRules) :
                    q # p => DestinationRules[q].Name # DestinationRules[p].Name

Without(rules, Drop(_)) == SelectSeq(rules, LAMBDA d : ~Drop(d))

(***************************************************************************)
(* Properties                                                              *)
(***************************************************************************)
SameServiceNoSubsets(p, q) ==
    /\ UsableHost(DestinationRules[p]) /\ UsableHost(DestinationRules[q])
    /\ ServiceOf(DestinationRules[p]) = ServiceOf(DestinationRules[q])
    /\ NoSubsetsAttr(DestinationRules[p]) /\ NoSubsetsAttr(DestinationRules[q])

\* C1 as stated: any two processed rules that target the same service and
\* declare no subsets are both in the findings.
C1_AnySentinelPairFlagged ==
    \A p, q \in Positions :
        p < q /\ SameServiceNoSubsets(p, q)
        => {DestinationRules[p].Name, DestinationRules[q].Name} \subseteq Flagged

\* C1 amended: any two processed rules that target the same service, have no
\* subsets attribute and are not exempted (service "*" with mode
\* ISTIO_MUTUAL) are both in the findings, whatever lies around them.
C1_SentinelPairFlagged ==
    \A p, q \in Positions :
        /\ p < q /\ SameServiceNoSubsets(p, q)
        /\ ~Exempt(DestinationRules[p]) /\ ~Exempt(DestinationRules[q])
        => {DestinationRules[p].Name, DestinationRules[q].Name} \subseteq Flagged

C1_Witness ==
    /\ Returned
    /\ \E p, q \in Positions :
          /\ p + 1 < q /\ SameServiceNoSubsets(p, q)
          /\ ~Exempt(DestinationRules[p]) /\ ~Exempt(DestinationRules[q])
          /\ Participates(DestinationRules[p + 1])
          /\ DestinationRules[p].Name # DestinationRules[q].Name
          /\ {DestinationRules[p].Name, DestinationRules[q].Name} \subseteq Flagged

WildcardAndConcrete(p, q) ==
    /\ Participates(DestinationRules[p]) /\ Participates(DestinationRules[q])
    /\ ServiceOf(DestinationRules[p]) = <<"*">>
    /\ ServiceOf(DestinationRules[q]) # <<"*">>
    /\ DeclaredNames(DestinationRules[p]) \cap DeclaredNames(DestinationRules[q]) # {}

\* C2: a non-exempt wildcard-host rule and a concrete-host rule that declare
\* a common subset name are both flagged once both are processed, whichever
\* of the two comes first.
C2_WildcardCollides ==
    \A p, q \in Positions :
        WildcardAndConcrete(p, q)
        => {DestinationRules[p].Name, DestinationRules[q].Name} \subseteq Flagged

\* the wildcard comes after the concrete rule, and nothing else is flagged
C2_Witness ==
    /\ Returned
    /\ \E p, q \in Positions :
          /\ q < p /\ WildcardAndConcrete(p, q)
          /\ Flagged = {DestinationRules[p].Name, DestinationRules[q].Name}
          /\ DestinationRules[p].Name # DestinationRules[q].Name

ExplicitSubsets(d) ==
    /\ UsableHost(d) /\ ServiceOf(d) # <<"*">>
    /\ AllEntriesNamed(d)
    /\ d.Spec["subsets"].elems # <<>>
    /\ "~" \notin DeclaredNames(d)

TwoExplicitRules ==
    /\ Returned
    /\ Len(DestinationRules) = 2
    /\ ExplicitSubsets(DestinationRules[1]) /\ ExplicitSubsets(DestinationRules[2])
    /\ ServiceOf(DestinationRules[1]) = ServiceOf(DestinationRules[2])

\* C3: for an input of exactly two rules on one concrete service, each with
\* a non-empty list of explicit subset names, both are flagged if the name
\* sets intersect and none is flagged if they are disjoint.
C3_TwoRulesIntersect ==
    TwoExplicitRules =>
        IF DeclaredNames(DestinationRules[1]) \cap DeclaredNames(DestinationRules[2]) # {}
        THEN Flagged = {DestinationRules[1].Name, DestinationRules[2].Name}
        ELSE validations = EmptyMap

\* {a, b} after {b, c}: only the second name of the later rule is shared
C3_Witness ==
    /\ TwoExplicitRules
    /\ DeclaredNames(DestinationRules[1]) = {"b", "c"}
    /\ DeclaredNames(DestinationRules[2]) = {"a", "b"}
    /\ Cardinality(Flagged) = 2

C3_WitnessDisjoint ==
    /\ TwoExplicitRules
    /\ DeclaredNames(DestinationRules[1]) \cap DeclaredNames(DestinationRules[2]) = {}
    /\ validations = EmptyMap

ConcreteMutual(d) == UsableHost(d) /\ ServiceOf(d) # <<"*">> /\ ModeIsMutual(d)

FindingsOf(rules) == { st.vals : st \in Check(rules) }

\* C4 as stated: a rule with a concrete host (svc.ns) and mode ISTIO_MUTUAL
\* is never reported, and the findings are those of the input without it.
C4_ConcreteMutualIgnored ==
    /\ \A p \in Positions :
          ConcreteMutual(DestinationRules[p]) /\ UniqueName(p)
          => DestinationRules[p].Name \notin Flagged
    /\ FindingsOf(Without(Processed, ConcreteMutual)) = {validations}

WithoutPolicy(d) ==
    IF ConcreteMutual(d)
    THEN [d EXCEPT !.Spec = [k \in DOMAIN d.Spec \ {"trafficPolicy"} |-> d.Spec[k]]]
    ELSE d

\* C4 amended: a rule with a concrete host (svc.ns) and mode ISTIO_MUTUAL is
\* not exempt: the findings are those of the same input with the rule's
\* trafficPolicy removed, and the rule is flagged together with any other
\* rule without subsets on its service.
C4_ConcreteMutualChecked ==
    /\ FindingsOf([p \in DOMAIN Processed |-> WithoutPolicy(Processed[p])]) = {validations}
    /\ \A p, q \in Positions :
          /\ p # q /\ ConcreteMutual(DestinationRules[p]) /\ SameServiceNoSubsets(p, q)
          => {DestinationRules[p].Name, DestinationRules[q].Name} \subseteq Flagged

C4_Witness ==
    /\ Returned
    /\ \E p, q \in Positions :
          /\ ConcreteMutual(DestinationRules[p]) /\ UniqueName(p) /\ UniqueName(q)
          /\ ~ConcreteMutual(DestinationRules[q]) /\ SameServiceNoSubsets(p, q)
          /\ Flagged = {DestinationRules[p].Name, DestinationRules[q].Name}

IndexOwners == { seenHostSubsets[h][n] : <<h, n>> \in
                   UNION { {h0} \X DOMAIN seenHostSubsets[h0] : h0 \in DOMAIN seenHostSubsets } }

\* C5: an exempt rule (service "*", mode the string ISTIO_MUTUAL) is a full
\* bypass: after every step the index and the findings are those of the
\* pass over the processed rules without the exempt ones, and an exempt
\* rule is neither an owner in the index nor flagged.
C5_ExemptBypassed ==
    /\ Check(Without(Processed, Exempt)) = {Now}
    /\ \A p \in Positions :
          Exempt(DestinationRules[p]) /\ UniqueName(p)
          => DestinationRules[p].Name \notin IndexOwners \cup Flagged

\* an exempt rule with subset a between two colliding rules
C5_Witness ==
    /\ Returned /\ Len(DestinationRules) = 3
    /\ Exempt(DestinationRules[2])
    /\ "a" \in DeclaredNames(DestinationRules[2])
    /\ Participates(DestinationRules[1]) /\ Participates(DestinationRules[3])
    /\ Flagged = {DestinationRules[1].Name, DestinationRules[3].Name}
    /\ Cardinality(Flagged) = 2

NoNamedSubset(d) == NoSubsetsAttr(d) \/ (SubsetsIsList(d) /\ DeclaredNames(d) = {})

WithoutSubsets(d) ==
    IF SubsetsIsList(d) /\ DeclaredNames(d) = {}
    THEN [d EXCEPT !.Spec = [k \in DOMAIN d.Spec \ {"subsets"} |-> d.Spec[k]]]
    ELSE d

\* C6: the extractor returns exactly the sentinel subset when the subsets
\* attribute is absent, an empty list, or a list without any string name,
\* so such a rule collides like a rule without the subsets attribute.
C6_EmptyListIsSentinel ==
    /\ \A p \in Positions :
          Participates(DestinationRules[p]) /\ NoNamedSubset(DestinationRules[p])
          => extractSubsets(DestinationRules[p], DestinationRules[p].Name)
               = <<[Name |-> "~", RuleName |-> DestinationRules[p].Name]>>
    /\ FindingsOf([p \in DOMAIN Processed |-> WithoutSubsets(Processed[p])]) = {validations}

ServiceOnly(d) ==
    IF UsableHost(d)
    THEN [d EXCEPT !.Namespace = <<>>, !.ClusterName = <<>>,
                   !.Spec = [@ EXCEPT !["host"] = [kind |-> "string", str |-> ServiceOf(d)]]]
    ELSE [d EXCEPT !.Namespace = <<>>, !.ClusterName = <<>>]

C8_SentinelReserved ==
    /\ \A p \in Positions :
          Participates(DestinationRules[p]) /\ SubsetsIsList(DestinationRules[p])
          => \A k \in DOMAIN extractSubsets(DestinationRules[p], DestinationRules[p].Name) :
                extractSubsets(DestinationRules[p], DestinationRules[p].Name)[k].Name # "~"
    /\ \A h \in DOMAIN seenHostSubsets :
          "~" \in DOMAIN seenHostSubsets[h]
          => \E p \in Positions :
                /\ Participates(DestinationRules[p]) /\ ~SubsetsIsList(DestinationRules[p])
                /\ DestinationRules[p].Name = seenHostSubsets[h]["~"]

TheFinding(name) ==
    [Name |-> name, ObjectType |-> "destinationrule", Valid |-> TRUE,
     Checks |-> <<[Code |-> "destinationrules.multimatch", Path |-> "spec/host"]>>]

ThreeSentinelRules ==
    /\ Returned /\ Len(DestinationRules) = 3
    /\ SameServiceNoSubsets(1, 2) /\ SameServiceNoSubsets(2, 3)
    /\ \A p \in 1..3 : ~Exempt(DestinationRules[p]) /\ UniqueName(p)

\* C9: every identity in the findings has one finding with exactly one
\* check (destinationrules.multimatch at spec/host), recording a flagged
\* identity again changes nothing, and three rules without subsets on one
\* service appear once each.
C9_OneFindingPerIdentity ==
    /\ \A key \in DOMAIN validations :
          /\ key.ObjectType = "destinationrule"
          /\ validations[key] = TheFinding(key.Name)
          /\ addError(validations, <<key.Name>>) = validations
          /\ \A n \in Flagged : addError(validations, <<key.Name, n>>) = validations
    /\ ThreeSentinelRules =>
          /\ Flagged = {"dr1", "dr2", "dr3"}
          /\ Cardinality(DOMAIN validations) = 3

C9_Witness ==
    /\ ThreeSentinelRules
    /\ Cardinality(DOMAIN validations) = 3
    /\ \A key \in DOMAIN validations : Len(validations[key].Checks) = 1

Unusable(d) == ~UsableHost(d)

\* C10: a rule whose host is absent or not a string is skipped: after every
\* step the index and the findings are those of the pass over the processed
\* rules without such rules.
C10_NoHostSkipped == Check(Without(Processed, Unusable)) = {Now}

\* a rule with an unusable host between two colliding rules
C10_Witness ==
    /\ Returned /\ Len(DestinationRules) = 3
    /\ ~UsableHost(DestinationRules[2])
    /\ Cardinality(Flagged) = 2

(***************************************************************************)
(* Segments of a host string, counted from its dots.                       *)
(***************************************************************************)
DotsIn(h) == { k \in 1..Len(h) : h[k] = "." }

\* position of the j-th dot; 0 before the first and Len(h) + 1 after the last
DotAt(h, j) ==
    IF j = 0 THEN 0
    ELSE IF j > Cardinality(DotsIn(h)) THEN Len(h) + 1
    ELSE CHOOSE k \in DotsIn(h) : Cardinality({ m \in DotsIn(h) : m <= k }) = j

NumSegments(h) == Cardinality(DotsIn(h)) + 1

Segment(h, j) == SubSeq(h, DotAt(h, j - 1) + 1, DotAt(h, j) - 1)

\* the segments from the third on, with the dots between them
AfterSecondDot(h) == SubSeq(h, DotAt(h, 2) + 1, Len(h))

HostOf(d) == d.Spec["host"].str

Formatted(d) == FormatHostnameForPrefixSearch(HostOf(d), d.Namespace, d.ClusterName)

\* C11 as stated: service is the first segment, namespace the second
\* segment whenever the host has one (the owner's namespace only when it has
\* none), cluster the rest whenever the host has a third segment (the
\* owner's cluster only when it has none).
C11_SegmentsWhenPresent ==
    \A p \in Positions :
        UsableHost(DestinationRules[p]) =>
            Formatted(DestinationRules[p]) =
                [Service   |-> Segment(HostOf(DestinationRules[p]), 1),
                 Namespace |-> IF NumSegments(HostOf(DestinationRules[p])) >= 2
                               THEN Segment(HostOf(DestinationRules[p]), 2)
                               ELSE DestinationRules[p].Namespace,
                 Cluster   |-> IF NumSegments(HostOf(DestinationRules[p])) >= 3
                               THEN AfterSecondDot(HostOf(DestinationRules[p]))
                               ELSE DestinationRules[p].ClusterName]

ExampleLong ==
    FormatHostnameForPrefixSearch(<<"r", ".", "b", ".", "s", ".", "c", ".", "l">>, <<"d">>, <<>>)
        = [Service |-> <<"r">>, Namespace |-> <<"b">>, Cluster |-> <<"s", ".", "c", ".", "l">>]

ExampleShort ==
    FormatHostnameForPrefixSearch(<<"r">>, <<"b">>, <<"e">>)
        = [Service |-> <<"r">>, Namespace |-> <<"b">>, Cluster |-> <<"e">>]

\* C11 amended: service is the first segment; namespace is the second
\* segment when the host has a non-empty one and the owner's namespace
\* otherwise; cluster is the rest after the second dot when it is non-empty
\* and the owner's cluster otherwise; the two examples of the claim hold.
C11_SegmentsWhenNonEmpty ==
    /\ \A p \in Positions :
          UsableHost(DestinationRules[p]) =>
              Formatted(DestinationRules[p]) =
                  [Service   |-> Segment(HostOf(DestinationRules[p]), 1),
                   Namespace |-> IF Segment(HostOf(DestinationRules[p]), 2) # <<>>
                                 THEN Segment(HostOf(DestinationRules[p]), 2)
                                 ELSE DestinationRules[p].Namespace,
                   Cluster   |-> IF AfterSecondDot(HostOf(DestinationRules[p])) # <<>>
                                 THEN AfterSecondDot(HostOf(DestinationRules[p]))
                                 ELSE DestinationRules[p].ClusterName]
    /\ ExampleLong /\ ExampleShort

\* a five-segment host and a host with an empty second segment were formatted
C11_Witness ==
    /\ Returned
    /\ \E p, q \in Positions :
          /\ UsableHost(DestinationRules[p]) /\ UsableHost(DestinationRules[q])
          /\ NumSegments(HostOf(DestinationRules[p])) = 5
          /\ Formatted(DestinationRules[p]).Cluster = <<"s", ".", "c", ".", "l">>
          /\ HostOf(DestinationRules[q]) = <<"r", ".", ".", "c">>
          /\ Formatted(DestinationRules[q]).Namespace = <<"d">>

\* C12: Check is a function of its input: whatever the order in which the
\* maps are visited, the pass over the processed rules, and the iteration
\* over the current rule, have exactly one outcome, which is the state.
C12_OneOutcome ==
    /\ Check(Processed) = {Now}
    /\ ~Returned => Cardinality(loopBody(seenHostSubsets, validations, currentRule)) = 1

\* a "*" rule without subsets met an index that holds two other hosts
C12_Witness ==
    /\ Returned /\ Len(DestinationRules) = 3
    /\ UsableHost(DestinationRules[3]) /\ ServiceOf(DestinationRules[3]) = <<"*">>
    /\ NoSubsetsAttr(DestinationRules[3])
    /\ Cardinality(DOMAIN seenHostSubsets) = 3
    /\ Cardinality(Flagged) = 3

ExtractedNames(d) == IF SubsetsIsList(d) THEN DeclaredNames(d) ELSE {"~"}

SameKeyOrWildcard(d, e) ==
    \/ ServiceOf(d) = ServiceOf(e)
    \/ ServiceOf(d) = <<"*">>
    \/ ServiceOf(e) = <<"*">>

AllNamesUnique == \A p \in 1..Len(DestinationRules) : UniqueName(p)

NoDeclaredSentinel == \A p \in 1..Len(DestinationRules) : "~" \notin DeclaredNames(DestinationRules[p])

MustCollide(d, e) ==
    /\ Participates(d) /\ Participates(e)
    /\ SameKeyOrWildcard(d, e)
    /\ \/ NoSubsetsAttr(d) /\ ExtractedNames(e) # {}
       \/ NoSubsetsAttr(e) /\ ExtractedNames(d) # {}
       \/ DeclaredNames(d) \cap DeclaredNames(e) # {}

\* C13: two distinct processed rules with unique names that are neither
\* skipped nor exempt, on equal services or one of them on "*", of which one
\* has no subsets attribute while the other claims some subset (or has none
\* either), or which declare a common subset name, are both flagged,
\* whatever was processed between and around them.
C13_Complete ==
    \A p, q \in Positions :
        /\ p # q /\ UniqueName(p) /\ UniqueName(q)
        /\ MustCollide(DestinationRules[p], DestinationRules[q])
        => {DestinationRules[p].Name, DestinationRules[q].Name} \subseteq Flagged

\* the owner of the first rule's entry was replaced before the partner came
C13_Witness ==
    /\ Returned /\ Len(DestinationRules) = 3 /\ AllNamesUnique
    /\ MustCollide(DestinationRules[1], DestinationRules[3])
    /\ DeclaredNames(DestinationRules[1]) \cap DeclaredNames(DestinationRules[2])
         \cap DeclaredNames(DestinationRules[3]) # {}
    /\ ServiceOf(DestinationRules[1]) = ServiceOf(DestinationRules[2])
    /\ Participates(DestinationRules[2])
    /\ "dr1" \notin IndexOwners
    /\ Flagged = {"dr1", "dr2", "dr3"}

(***************************************************************************)
(* The pass with collision-check as an exclusive if / else-if / else.      *)
(***************************************************************************)
RECURSIVE recordAll(_, _, _, _)
recordAll(vals, currentName, existingMap, keys) ==
    IF keys = {} THEN {vals}
    ELSE UNION { recordAll(addError(vals, <<currentName, existingMap[k]>>),
                           currentName, existingMap, keys \ {k}) : k \in keys }

RECURSIVE recordMatching(_, _, _, _)
recordMatching(vals, currentName, currentSubsets, existingMap) ==
    IF currentSubsets = <<>> THEN vals
    ELSE recordMatching(IF Head(currentSubsets).Name \in DOMAIN existingMap
                        THEN addError(vals, <<currentName, existingMap[Head(currentSubsets).Name]>>)
                        ELSE vals,
                        currentName, Tail(currentSubsets), existingMap)

collisionCheckExclusive(vals, currentName, currentSubsets, existingMap) ==
    IF Len(currentSubsets) = 1 /\ currentSubsets[1].Name = "~"
    THEN recordAll(vals, currentName, existingMap, DOMAIN existingMap)
    ELSE IF "~" \in DOMAIN existingMap
    THEN {addError(vals, <<currentName, existingMap["~"]>>)}
    ELSE {recordMatching(vals, currentName, currentSubsets, existingMap)}

RECURSIVE checkAllKeysExclusive(_, _, _, _, _)
checkAllKeysExclusive(valsSet, currentName, currentSubsets, index, keys) ==
    IF keys = {} THEN valsSet
    ELSE UNION { checkAllKeysExclusive(
                    UNION { collisionCheckExclusive(v, currentName, currentSubsets, index[k])
                            : v \in valsSet },
                    currentName, currentSubsets, index, keys \ {k}) : k \in keys }

stepExclusive(st, d) ==
    IF ~Participates(d) THEN {st}
    ELSE LET S == extractSubsets(d, d.Name)
             service == ServiceOf(d)
             step4 == IF service = <<"*">>
                      THEN checkAllKeysExclusive({st.vals}, d.Name, S, st.seen, DOMAIN st.seen)
                      ELSE {st.vals}
             step5 == IF <<"*">> \in DOMAIN st.seen
                      THEN UNION { collisionCheckExclusive(v, d.Name, S, st.seen[<<"*">>])
                                   : v \in step4 }
                      ELSE step4
             step6 == IF service \in DOMAIN st.seen
                      THEN UNION { collisionCheckExclusive(v, d.Name, S, st.seen[service])
                                   : v \in step5 }
                      ELSE step5
         IN { [seen |-> mergeSubsets(st.seen, service, S, d.Name), vals |-> v] : v \in step6 }

RECURSIVE passExclusive(_, _)
passExclusive(states, rules) ==
    IF rules = <<>> THEN states
    ELSE passExclusive(UNION { stepExclusive(st, Head(rules)) : st \in states }, Tail(rules))

FindingsExclusive(rules) ==
    { st.vals : st \in passExclusive({[seen |-> <<>>, vals |-> <<>>]}, rules) }

\* C14: when no declared subset is named "~", the findings of Check, whose
\* checkCollisions evaluates its three checks unconditionally, are after
\* every step those of the pass whose collision-check is the exclusive
\* if / else-if / else of the three cases.
C14_ExclusiveCasesAgree ==
    NoDeclaredSentinel => FindingsExclusive(Processed) = {validations}

\* a rule with declared names met an index entry that holds both "~" and one
\* of its names
C14_Witness ==
    /\ Returned /\ Len(DestinationRules) = 3 /\ NoDeclaredSentinel /\ AllNamesUnique
    /\ \A p \in 1..3 : Participates(DestinationRules[p])
                       /\ ServiceOf(DestinationRules[p]) = <<"r">>
    /\ NoSubsetsAttr(DestinationRules[1])
    /\ DeclaredNames(DestinationRules[2]) \cap DeclaredNames(DestinationRules[3]) # {}
    /\ Flagged = {"dr1", "dr2", "dr3"}

\* with a declared "~" the two passes differ
C14_AnyNames == FindingsExclusive(Processed) = {validations}

\* C15: a rule is checked against the index before its own subsets are
\* merged, so it never collides with itself: with unique names the number of
\* flagged identities is never exactly one, and an input of a single rule
\* yields no findings.
C15_NeverAlone ==
    AllNamesUnique =>
        /\ Cardinality(Flagged) # 1
        /\ Len(DestinationRules) = 1 => validations = EmptyMap

\* a single rule that lists the same subset twice was processed
C15_Witness ==
    /\ Returned /\ Len(DestinationRules) = 1
    /\ Participates(DestinationRules[1]) /\ SubsetsIsList(DestinationRules[1])
    /\ DestinationRules[1].Spec["subsets"] =
          [kind |-> "slice", elems |-> << [kind |-> "map", map |-> [name |-> [kind |-> "string", str |-> "a"]]],
                                          [kind |-> "map", map |-> [name |-> [kind |-> "string", str |-> "a"]]] >>]
    /\ seenHostSubsets = (<<"r">> :> ("a" :> "dr1"))
    /\ validations = EmptyMap

IndexNames(index, h) == IF h \in DOMAIN index THEN DOMAIN index[h] ELSE {}

\* the index as the processed rules determine it: key k holds name exactly
\* when some processed, participating rule on k extracted it, and the owner
\* is the last such rule
IndexIsLastOwners(index, rules) ==
    /\ \A p \in DOMAIN rules :
          Participates(rules[p]) =>
              /\ ServiceOf(rules[p]) \in DOMAIN index
              /\ ExtractedNames(rules[p]) \subseteq DOMAIN index[ServiceOf(rules[p])]
    /\ \A k \in DOMAIN index : \A name \in DOMAIN index[k] :
          \E p \in DOMAIN rules :
              /\ Participates(rules[p]) /\ ServiceOf(rules[p]) = k
              /\ name \in ExtractedNames(rules[p])
              /\ index[k][name] = rules[p].Name
              /\ \A q \in DOMAIN rules :
                    q > p /\ Participates(rules[q]) /\ ServiceOf(rules[q]) = k
                    => name \notin ExtractedNames(rules[q])

\* C16: in every step of the pass no service key and no subset name leaves
\* the index; a rule that is not skipped sets index[s][name] to its name for
\* the names it extracted and changes nothing else, a skipped rule changes
\* nothing; and afterwards every entry index[k][name] names the last
\* processed, non-exempt rule with a string host on k that extracted name.
C16_IndexInvariant ==
    [][ /\ \A k \in DOMAIN seenHostSubsets :
              /\ k \in DOMAIN seenHostSubsets'
              /\ DOMAIN seenHostSubsets[k] \subseteq DOMAIN seenHostSubsets'[k]
        /\ IF Participates(currentRule)
           THEN \A k \in DOMAIN seenHostSubsets' : \A name \in DOMAIN seenHostSubsets'[k] :
                   IF k = ServiceOf(currentRule) /\ name \in ExtractedNames(currentRule)
                   THEN seenHostSubsets'[k][name] = currentRule.Name
                   ELSE /\ name \in IndexNames(seenHostSubsets, k)
                        /\ seenHostSubsets'[k][name] = seenHostSubsets[k][name]
           ELSE seenHostSubsets' = seenHostSubsets
        /\ IndexIsLastOwners(seenHostSubsets', SubSeq(DestinationRules, 1, i))
      ]_vars

\* the owner of an entry was replaced while another entry kept its owner
C16_Witness ==
    /\ Returned /\ Len(DestinationRules) = 3 /\ AllNamesUnique
    /\ seenHostSubsets = (<<"r">> :> ("a" :> "dr1" @@ "b" :> "dr3" @@ "~" :> "dr2"))

\* C17: whenever a step replaces the owner of an existing entry
\* index[s][name] by a different rule, the previous owner and the new one
\* both have a finding when the entry is written, so no unflagged rule ever
\* loses an index entry.
C17_OverwriteOnlyFlagged ==
    [][ \A k \in DOMAIN seenHostSubsets : \A name \in DOMAIN seenHostSubsets[k] :
            seenHostSubsets'[k][name] # seenHostSubsets[k][name]
            => /\ seenHostSubsets'[k][name] = currentRule.Name
               /\ {seenHostSubsets[k][name], seenHostSubsets'[k][name]}
                     \subseteq { key.Name : key \in DOMAIN validations' }
      ]_vars

\* the "~" entry of a service changed its owner twice
C17_Witness ==
    /\ Returned /\ Len(DestinationRules) = 3 /\ AllNamesUnique
    /\ \A p \in 1..3 : Participates(DestinationRules[p]) /\ NoSubsetsAttr(DestinationRules[p])
                       /\ ServiceOf(DestinationRules[p]) = <<"p">>
    /\ seenHostSubsets = (<<"p">> :> ("~" :> "dr3"))
    /\ Flagged = {"dr1", "dr2", "dr3"}

Partners(d, e) ==
    /\ Participates(d) /\ Participates(e)
    /\ SameKeyOrWildcard(d, e)
    /\ \/ ExtractedNames(d) = {"~"}
       \/ ExtractedNames(e) = {"~"}
       \/ DeclaredNames(d) \cap DeclaredNames(e) # {}

\* C18: with unique names and no declared subset named "~", every flagged
\* identity is that of a processed rule, neither skipped nor exempt, that
\* has a distinct partner among the processed rules on the same service (or
\* one of the two on "*") such that one of the two extracts exactly the
\* sentinel or the two share a declared subset name.
C18_Sound ==
    AllNamesUnique /\ NoDeclaredSentinel =>
        \A n \in Flagged :
            \E p, q \in Positions :
                /\ p # q /\ DestinationRules[p].Name = n
                /\ Partners(DestinationRules[p], DestinationRules[q])

\* rules on r and on p with the same subset name, and nothing flagged
C18_Witness ==
    /\ Returned /\ Len(DestinationRules) = 3 /\ AllNamesUnique /\ NoDeclaredSentinel
    /\ \A p \in 1..3 : Participates(DestinationRules[p])
    /\ ServiceOf(DestinationRules[1]) = <<"r">> /\ ServiceOf(DestinationRules[2]) = <<"p">>
    /\ "a" \in DeclaredNames(DestinationRules[1]) \cap DeclaredNames(DestinationRules[2])
    /\ Partners(DestinationRules[2], DestinationRules[3])
    /\ Flagged = {"dr2", "dr3"}

Orderings(n) == { f \in [1..n -> 1..n] : \A a, b \in 1..n : f[a] = f[b] => a = b }

FlaggedSetsOf(rules) == { { key.Name : key \in DOMAIN v } : v \in FindingsOf(rules) }

\* C19: with unique names and no declared subset named "~", Check flags the
\* same set of identities for every permutation of its input.
C19_OrderIndependent ==
    Returned /\ AllNamesUnique /\ NoDeclaredSentinel =>
        \A f \in Orderings(Len(DestinationRules)) :
            FlaggedSetsOf([p \in 1..Len(DestinationRules) |-> DestinationRules[f[p]]]) = {Flagged}

ClaimsNothing(d) == Participates(d) /\ ExtractedNames(d) = {}

\* the same, for inputs in which no rule has a subsets list without any
\* string name (the inputs on which extractSubsets returns no subset)
C19_WithoutEmptyLists ==
    /\ Returned /\ AllNamesUnique /\ NoDeclaredSentinel
    /\ \A p \in 1..Len(DestinationRules) : ~ClaimsNothing(DestinationRules[p])
    => \A f \in Orderings(Len(DestinationRules)) :
          FlaggedSetsOf([p \in 1..Len(DestinationRules) |-> DestinationRules[f[p]]]) = {Flagged}

====
